---- MODULE Spec2Model ----
(***************************************************************************)
(* Model of the Burushaski chatbot frontend: the REST client wrapper       *)
(* (frontend/src/utils/api.js) and the dictionary search page              *)
(* (frontend/src/pages/DictionaryDemo.jsx).                                *)
(*                                                                         *)
(* JavaScript strings are sequences of UTF-16 code units (naturals), so    *)
(* that encodeURIComponent, JSON.stringify and template literals are       *)
(* computed rather than assumed.  A JavaScript value is a record           *)
(* [t, s, n]: t is the type tag, s the code units of a string, n the       *)
(* value of a number.                                                      *)
(***************************************************************************)
EXTENDS Integers, Sequences, FiniteSets, TLC

VARIABLES
    env,        \* import.meta.env.VITE_API_BASE as found at module load
    API_BASE,   \* api.js: the base URL, resolved once at load
    q,          \* DictionaryDemo: useState('')
    results,    \* DictionaryDemo: useState([])
    error,      \* DictionaryDemo: useState(null)
    dom,        \* what the last render of DictionaryDemo returned
    calls,      \* every call of an api.js operation, in call order
    requests,   \* every fetch(url, opts) issued, in issue order
    arrivals    \* indices of calls, in the order their promises settled

vars == <<env, API_BASE, q, results, error, dom, calls, requests, arrivals>>

-----------------------------------------------------------------------------
(* Bounds of the model *)

\* how many times the search form is submitted in a behaviour
MaxSubmits == 2
\* how many direct calls of the client's operations in a behaviour
MaxDirectCalls == 1

-----------------------------------------------------------------------------
(* JavaScript values *)

Undefined == [t |-> "undefined", s |-> <<>>, n |-> 0]
Null == [t |-> "null", s |-> <<>>, n |-> 0]
Str(s) == [t |-> "string", s |-> s, n |-> 0]
Num(n) == [t |-> "number", s |-> <<>>, n |-> n]

RECURSIVE Digits(_)
\* decimal digits of a natural number, as code units
Digits(n) ==
    IF n < 10 THEN <<48 + n>> ELSE Digits(n \div 10) \o <<48 + (n % 10)>>

\* Number::toString for the integers
NumToStr(n) ==
    IF n < 0 THEN <<45>> \o Digits(0 - n) ELSE Digits(n)

\* 'undefined'
S_undefined ==
    <<117, 110, 100, 101, 102, 105, 110, 101, 100>>
\* 'null'
S_null ==
    <<110, 117, 108, 108>>

\* ToString (of ECMAScript), as a template literal `${v}` applies it
JSToString(v) ==
    CASE v.t = "string" -> v.s
      [] v.t = "number" -> NumToStr(v.n)
      [] v.t = "null" -> S_null
      [] OTHER -> S_undefined

\* ToBoolean, as `a || b`, `a && b` and `a ? b : c` apply it
Truthy(v) ==
    CASE v.t = "string" -> v.s # <<>>
      [] v.t = "number" -> v.n # 0
      [] OTHER -> FALSE

\* a default parameter value applies exactly when the argument is undefined
DefaultParam(v, d) ==
    IF v = Undefined THEN d ELSE v

-----------------------------------------------------------------------------
(* encodeURIComponent (ECMAScript Encode with the unreserved set of        *)
(* encodeURIComponent): result [ok, s]; ok = FALSE is a thrown URIError.   *)

\* A-Z a-z 0-9 - _ . ! ~ * ' ( )
UriUnreserved ==
    (65..90) \cup (97..122) \cup (48..57) \cup {45, 95, 46, 33, 126, 42, 39, 40, 41}

HexDigit(d) ==
    IF d < 10 THEN 48 + d ELSE 55 + d

\* '%XX' for one octet
PercentOctet(b) ==
    <<37, HexDigit(b \div 16), HexDigit(b % 16)>>

\* the UTF-8 octets of a code point
Utf8(cp) ==
    IF cp < 128 THEN <<cp>>
    ELSE IF cp < 2048 THEN <<192 + (cp \div 64), 128 + (cp % 64)>>
    ELSE IF cp < 65536 THEN
        <<224 + (cp \div 4096), 128 + ((cp \div 64) % 64), 128 + (cp % 64)>>
    ELSE
        <<240 + (cp \div 262144), 128 + ((cp \div 4096) % 64),
          128 + ((cp \div 64) % 64), 128 + (cp % 64)>>

RECURSIVE PercentOctets(_)
PercentOctets(bs) ==
    IF bs = <<>> THEN <<>>
    ELSE PercentOctet(Head(bs)) \o PercentOctets(Tail(bs))

IsHighSurrogate(c) == c >= 55296 /\ c <= 56319
IsLowSurrogate(c) == c >= 56320 /\ c <= 57343

RECURSIVE EncodeFrom(_, _)
EncodeFrom(str, k) ==
    IF k > Len(str) THEN [ok |-> TRUE, s |-> <<>>]
    ELSE IF str[k] \in UriUnreserved THEN
        LET rest == EncodeFrom(str, k + 1)
        IN [ok |-> rest.ok, s |-> <<str[k]>> \o rest.s]
    ELSE IF IsLowSurrogate(str[k]) THEN [ok |-> FALSE, s |-> <<>>]
    ELSE IF ~IsHighSurrogate(str[k]) THEN
        LET rest == EncodeFrom(str, k + 1)
        IN [ok |-> rest.ok, s |-> PercentOctets(Utf8(str[k])) \o rest.s]
    ELSE IF k + 1 > Len(str) THEN [ok |-> FALSE, s |-> <<>>]
    ELSE IF ~IsLowSurrogate(str[k + 1]) THEN [ok |-> FALSE, s |-> <<>>]
    ELSE
        LET cp == (str[k] - 55296) * 1024 + (str[k + 1] - 56320) + 65536
            rest == EncodeFrom(str, k + 2)
        IN [ok |-> rest.ok, s |-> PercentOctets(Utf8(cp)) \o rest.s]

\* an encoding of x without escaping, as a forgotten encodeURIComponent gives
encodeURIComponent_identity(x) ==
    [ok |-> TRUE, s |-> JSToString(x)]

encodeURIComponent(x) ==
    LET r == EncodeFrom(JSToString(x), 1)
    IN IF r.ok THEN r ELSE [ok |-> FALSE, s |-> <<>>]

-----------------------------------------------------------------------------
(* JSON.stringify of strings and of the object literal of translate *)

\* four lower-case hex digits, as QuoteJSONString's UnicodeEscape writes them
LowerHex(d) ==
    IF d < 10 THEN 48 + d ELSE 87 + d

UnicodeEscape(c) ==
    <<92, 117, LowerHex(c \div 4096), LowerHex((c \div 256) % 16),
      LowerHex((c \div 16) % 16), LowerHex(c % 16)>>

\* a high surrogate at k followed by a low surrogate: one well-formed code point
IsPairAt(str, k) ==
    /\ k < Len(str)
    /\ IsHighSurrogate(str[k])
    /\ IsLowSurrogate(str[k + 1])

RECURSIVE QuoteFrom(_, _)
QuoteFrom(str, k) ==
    IF k > Len(str) THEN <<>>
    ELSE
        LET c == str[k]
        IN CASE c = 34 -> <<92, 34>> \o QuoteFrom(str, k + 1)
             [] c = 92 -> <<92, 92>> \o QuoteFrom(str, k + 1)
             [] c = 8 -> <<92, 98>> \o QuoteFrom(str, k + 1)
             [] c = 9 -> <<92, 116>> \o QuoteFrom(str, k + 1)
             [] c = 10 -> <<92, 110>> \o QuoteFrom(str, k + 1)
             [] c = 12 -> <<92, 102>> \o QuoteFrom(str, k + 1)
             [] c = 13 -> <<92, 114>> \o QuoteFrom(str, k + 1)
             [] c < 32 /\ c \notin {8, 9, 10, 12, 13} ->
                    UnicodeEscape(c) \o QuoteFrom(str, k + 1)
             [] IsPairAt(str, k) ->
                    <<c, str[k + 1]>> \o QuoteFrom(str, k + 2)
             [] (IsHighSurrogate(c) \/ IsLowSurrogate(c)) /\ ~IsPairAt(str, k) ->
                    UnicodeEscape(c) \o QuoteFrom(str, k + 1)
             [] OTHER -> <<c>> \o QuoteFrom(str, k + 1)

\* QuoteJSONString
QuoteJSONString(str) ==
    <<34>> \o QuoteFrom(str, 1) \o <<34>>

\* JSON.stringify of a primitive; [ok = FALSE] is undefined (the property is omitted)
StringifyValue(v) ==
    CASE v.t = "string" -> [ok |-> TRUE, s |-> QuoteJSONString(v.s)]
      [] v.t = "number" -> [ok |-> TRUE, s |-> NumToStr(v.n)]
      [] v.t = "null" -> [ok |-> TRUE, s |-> S_null]
      [] OTHER -> [ok |-> FALSE, s |-> <<>>]

RECURSIVE StringifyProps(_, _)
\* the members of an object, in property order; first says no member was written yet
StringifyProps(props, first) ==
    IF props = <<>> THEN <<>>
    ELSE
        LET p == Head(props)
            v == StringifyValue(p[2])
        IN IF v.ok
           THEN (IF first THEN <<>> ELSE <<44>>) \o QuoteJSONString(p[1]) \o <<58>> \o v.s
                \o StringifyProps(Tail(props), FALSE)
           ELSE StringifyProps(Tail(props), first)

\* JSON.stringify of an object given as its properties in insertion order
JSONstringify(props) ==
    <<123>> \o StringifyProps(props, TRUE) \o <<125>>

-----------------------------------------------------------------------------
(* api.js *)

\* 'http://127.0.0.1:8000'
DEFAULT_API_BASE ==
    <<104, 116, 116, 112, 58, 47, 47, 49, 50, 55, 46, 48, 46, 48, 46, 49, 58,
      56, 48, 48, 48>>
\* '/api/dictionary/search?q='
SEARCH_PATH ==
    <<47, 97, 112, 105, 47, 100, 105, 99, 116, 105, 111, 110, 97, 114, 121,
      47, 115, 101, 97, 114, 99, 104, 63, 113, 61>>
\* '&limit='
LIMIT_PARAM ==
    <<38, 108, 105, 109, 105, 116, 61>>
\* '/api/dictionary/item/'
ITEM_PATH ==
    <<47, 97, 112, 105, 47, 100, 105, 99, 116, 105, 111, 110, 97, 114, 121,
      47, 105, 116, 101, 109, 47>>
\* '/api/dictionary/by-burushaski?text='
BY_BURUSHASKI_PATH ==
    <<47, 97, 112, 105, 47, 100, 105, 99, 116, 105, 111, 110, 97, 114, 121,
      47, 98, 121, 45, 98, 117, 114, 117, 115, 104, 97, 115, 107, 105, 63,
      116, 101, 120, 116, 61>>
\* '/api/translate'
TRANSLATE_PATH ==
    <<47, 97, 112, 105, 47, 116, 114, 97, 110, 115, 108, 97, 116, 101>>
\* 'Request failed '
REQUEST_FAILED ==
    <<82, 101, 113, 117, 101, 115, 116, 32, 102, 97, 105, 108, 101, 100, 32>>
\* ': '
COLON_SP ==
    <<58, 32>>
\* 'GET'
S_GET ==
    <<71, 69, 84>>
\* 'POST'
S_POST ==
    <<80, 79, 83, 84>>
\* 'Content-Type'
S_content_type ==
    <<67, 111, 110, 116, 101, 110, 116, 45, 84, 121, 112, 101>>
\* 'application/json'
S_application_json ==
    <<97, 112, 112, 108, 105, 99, 97, 116, 105, 111, 110, 47, 106, 115, 111,
      110>>
\* 'burushaski'
S_burushaski ==
    <<98, 117, 114, 117, 115, 104, 97, 115, 107, 105>>
\* 'english'
S_english ==
    <<101, 110, 103, 108, 105, 115, 104>>
\* 'text'
S_text ==
    <<116, 101, 120, 116>>
\* 'source'
S_source ==
    <<115, 111, 117, 114, 99, 101>>
\* 'target'
S_target ==
    <<116, 97, 114, 103, 101, 116>>
\* 'Error'
S_Error ==
    <<69, 114, 114, 111, 114>>
\* 'TypeError'
S_TypeError ==
    <<84, 121, 112, 101, 69, 114, 114, 111, 114>>
\* 'URIError'
S_URIError ==
    <<85, 82, 73, 69, 114, 114, 111, 114>>
\* 'SyntaxError'
S_SyntaxError ==
    <<83, 121, 110, 116, 97, 120, 69, 114, 114, 111, 114>>
\* 'Failed to fetch'
S_failed_to_fetch ==
    <<70, 97, 105, 108, 101, 100, 32, 116, 111, 32, 102, 101, 116, 99, 104>>
\* 'URI malformed'
S_uri_malformed ==
    <<85, 82, 73, 32, 109, 97, 108, 102, 111, 114, 109, 101, 100>>
\* 'Unexpected end of JSON input'
S_json_eof ==
    <<85, 110, 101, 120, 112, 101, 99, 116, 101, 100, 32, 101, 110, 100, 32,
      111, 102, 32, 74, 83, 79, 78, 32, 105, 110, 112, 117, 116>>

\* the default of searchDictionary's limit parameter
DEFAULT_LIMIT == 20

\* `import.meta?.env?.VITE_API_BASE || "http://127.0.0.1:8000"`
ResolveApiBase(e) ==
    IF Truthy(e) THEN JSToString(e) ELSE DEFAULT_API_BASE

\* the promise of a call: pending, fulfilled with a value, or rejected with an error
Pending == [kind |-> "pending", value |-> <<>>, name |-> <<>>, message |-> <<>>]
Fulfilled(v) == [kind |-> "value", value |-> v, name |-> <<>>, message |-> <<>>]
Rejected(name, message) ==
    [kind |-> "error", value |-> <<>>, name |-> name, message |-> message]

\* the options object handed to fetch: absent members are Undefined
Opts(method, headers, body) ==
    [method |-> method, headers |-> headers, body |-> body]

\* `opts = {}`
NoOpts == Opts(Undefined, <<>>, Undefined)

\* what an operation does before its first await: [ok = FALSE] is an exception
\* thrown while the path is built, else the path and options given to request
Plan(ok, path, opts) == [ok |-> ok, path |-> path, opts |-> opts]

\* searchDictionary with the limit spliced in before the default is applied
searchDictionary_noDefault(query, limit) ==
    LET enc == encodeURIComponent(query)
    IN Plan(enc.ok, SEARCH_PATH \o enc.s \o LIMIT_PARAM \o JSToString(limit),
            Opts(Str(S_GET), <<>>, Undefined))

searchDictionary(query, limit) ==
    LET lim == DefaultParam(limit, Num(DEFAULT_LIMIT))
        enc == encodeURIComponent(query)
    IN Plan(enc.ok, SEARCH_PATH \o enc.s \o LIMIT_PARAM \o JSToString(lim),
            Opts(Str(S_GET), <<>>, Undefined))

getWordById(id) ==
    Plan(TRUE, ITEM_PATH \o JSToString(id), NoOpts)

getByBurushaski(text) ==
    LET enc == encodeURIComponent(text)
    IN Plan(enc.ok, BY_BURUSHASKI_PATH \o enc.s, NoOpts)

\* translate with the members of the body in the order text, target, source
translate_swapped(text, source, target) ==
    LET src == DefaultParam(source, Str(S_burushaski))
        tgt == DefaultParam(target, Str(S_english))
        body == <<<<S_text, text>>, <<S_target, tgt>>, <<S_source, src>>>>
    IN Plan(TRUE, TRANSLATE_PATH,
            Opts(Str(S_POST), <<<<S_content_type, S_application_json>>>>,
                 Str(JSONstringify(body))))

translate(text, source, target) ==
    LET src == DefaultParam(source, Str(S_burushaski))
        tgt == DefaultParam(target, Str(S_english))
        body == <<<<S_text, text>>, <<S_source, src>>, <<S_target, tgt>>>>
    IN Plan(TRUE, TRANSLATE_PATH,
            Opts(Str(S_POST), <<<<S_content_type, S_application_json>>>>,
                 Str(JSONstringify(body))))

\* Response.ok
ResponseOk(status) ==
    status >= 200 /\ status <= 299

\* `new Error(`Request failed ${res.status}: ${text}`)` with the body parsed as
\* JSON and only its detail kept
RequestFailedError_parsed(status, text) ==
    Rejected(S_Error, REQUEST_FAILED \o NumToStr(status) \o COLON_SP)

\* `new Error(`Request failed ${res.status}: ${text}`)`
RequestFailedError(status, text) ==
    Rejected(S_Error, REQUEST_FAILED \o NumToStr(status) \o COLON_SP \o text)

\* Error.prototype.toString, which String(err) calls
StringOfError(err) ==
    IF err.name = <<>> THEN err.message
    ELSE IF err.message = <<>> THEN err.name
    ELSE err.name \o COLON_SP \o err.message

-----------------------------------------------------------------------------
(* DictionaryDemo.jsx: rendering *)

\* ' — '
S_dash ==
    <<32, 8212, 32>>

\* how React renders a child expression {v}: null and undefined render nothing
ReactText(v) ==
    IF v.t \in {"string", "number"} THEN JSToString(v) ELSE <<>>

\* <li>: the children of the item of entry w, with the test `w.urdu !== undefined`
ResultItem_definedTest(w) ==
    [key |-> w.id,
     children |-> <<ReactText(w.burushaski), S_dash, ReactText(w.english), <<32>>,
                    IF w.urdu # Undefined THEN <<40>> \o JSToString(w.urdu) \o <<41>>
                    ELSE <<>>>>]

\* <li key={w.id}>: <strong>, ' — ', {w.english}, ' ', {w.urdu ? `(${w.urdu})` : ''}
ResultItem(w) ==
    [key |-> w.id,
     children |-> <<ReactText(w.burushaski), S_dash, ReactText(w.english), <<32>>,
                    IF Truthy(w.urdu) THEN <<40>> \o JSToString(w.urdu) \o <<41>>
                    ELSE <<>>>>]

\* what DictionaryDemo returns for a state: the input's value, the error banner
\* (a sequence of at most one text) and the list items
Render(query, res, err) ==
    [input |-> query,
     banner |-> IF Truthy(err) THEN <<JSToString(err)>> ELSE <<>>,
     items |-> [i \in 1..Len(res) |-> ResultItem(res[i])]]

-----------------------------------------------------------------------------
(* Inputs: what the user types, what callers pass, what the backend answers *)

\* 'a &e-acute', em dash + U+1F600, 'a' + lone high surrogate, lone low surrogate
QUERIES ==
    {<<97, 32, 38, 233>>, <<8212, 55357, 56832>>, <<97, 55357>>, <<56832>>}

\* what the user types into the search box (besides clearing it):
\* 'a &e-acute', lone high surrogate + 'a'
TYPED ==
    {<<97, 32, 38, 233>>, <<55357, 97>>}

\* omitted, -1, '1&x'
LIMITS ==
    {Undefined, Num(0 - 1), Str(<<49, 38, 120>>)}

\* 7, 'a/b'
IDS ==
    {Num(7), Str(<<97, 47, 98>>)}

\* 'hello', 'a"\' + line feed + lone high surrogate
TEXTS ==
    {<<104, 101, 108, 108, 111>>, <<97, 34, 92, 10, 55357>>}

SOURCES ==
    {Undefined, Str(S_english)}

TARGETS ==
    {Undefined, Str(S_burushaski)}

\* unset, set to the empty string, set to 'http://h:1'
ENVS ==
    {Undefined, Str(<<>>), Str(<<104, 116, 116, 112, 58, 47, 47, 104, 58, 49>>)}

STATUSES ==
    {200, 299, 300, 500}

\* failure bodies: '', '{"detail":"Not Found"}'
BODIES ==
    {<<>>,
     <<123, 34, 100, 101, 116, 97, 105, 108, 34, 58, 34, 78, 111, 116, 32, 70,
       111, 117, 110, 100, 34, 125>>}

\* {id: 1, burushaski: 'a', english: 'b'}
E1 ==
    [id |-> Num(1), burushaski |-> Str(<<97>>), english |-> Str(<<98>>),
     urdu |-> Undefined]
\* {id: 2, burushaski: 'x', english: 'y', urdu: 'z'}
E2 ==
    [id |-> Num(2), burushaski |-> Str(<<120>>), english |-> Str(<<121>>),
     urdu |-> Str(<<122>>)]
\* {id: 3, burushaski: 'c', english: 'd', urdu: ''}
E3 ==
    [id |-> Num(3), burushaski |-> Str(<<99>>), english |-> Str(<<100>>),
     urdu |-> Str(<<>>)]
\* {id: 4, burushaski: 'e', english: 'f', urdu: null}
E4 ==
    [id |-> Num(4), burushaski |-> Str(<<101>>), english |-> Str(<<102>>),
     urdu |-> Null]

\* the values res.json() can produce for a search
JSON_BODIES ==
    {<<>>, <<E1>>, <<E2, E3, E4>>}

\* the message of the TypeError a failed fetch or body read rejects with
TRANSPORT_MESSAGES ==
    {S_failed_to_fetch}

-----------------------------------------------------------------------------
(* State *)

Init ==
    /\ env \in ENVS
    /\ API_BASE = ResolveApiBase(env)
    /\ q = <<>>
    /\ results = <<>>
    /\ error = Null
    /\ dom = Render(<<>>, <<>>, Null)
    /\ calls = <<>>
    /\ requests = <<>>
    /\ arrivals = <<>>

CallIds == 1..Len(calls)
InFlight == {i \in CallIds : calls[i].pc # "settled"}
ViewCalls == {i \in CallIds : calls[i].caller = "view"}
DirectCalls == {i \in CallIds : calls[i].caller = "direct"}

\* a promise already rejected whose reaction has not run yet: it runs before
\* any other event is handled
MicrotaskPending == \E i \in CallIds : calls[i].pc = "thrown"

\* request(path, opts) up to `await fetch(url, opts)`: the fetch it issues
request(i, path, opts) ==
    [call |-> i, url |-> API_BASE \o path, method |-> opts.method,
     headers |-> opts.headers, body |-> opts.body]

\* an exported operation called: it runs up to its first await
ApiCall(op, caller, args, plan) ==
    /\ calls' = Append(calls,
                       [op |-> op, caller |-> caller, args |-> args,
                        pc |-> IF plan.ok THEN "fetch" ELSE "thrown",
                        status |-> 0, read |-> "none", text |-> Undefined,
                        overlap |-> Cardinality(InFlight),
                        outcome |-> Pending])
    /\ requests' = IF plan.ok
                   THEN Append(requests, request(Len(calls) + 1, plan.path, plan.opts))
                   ELSE requests
    /\ UNCHANGED arrivals

\* doSearch after the await, with a failure also clearing the results
doSearch_resume_clearing(i, outcome) ==
    IF outcome.kind = "value"
    THEN results' = outcome.value /\ UNCHANGED error
    ELSE error' = Str(StringOfError(outcome)) /\ results' = <<>>

\* doSearch after the await, dropping the response of any search but the latest
doSearch_resume_latestOnly(i, outcome) ==
    IF outcome.kind = "value"
    THEN /\ results' = IF \A j \in ViewCalls : j <= i THEN outcome.value ELSE results
         /\ UNCHANGED error
    ELSE error' = Str(StringOfError(outcome)) /\ UNCHANGED results

\* doSearch after the await, adding the entries to the list instead of replacing it
doSearch_resume_appending(i, outcome) ==
    IF outcome.kind = "value"
    THEN results' = results \o outcome.value /\ UNCHANGED error
    ELSE error' = Str(StringOfError(outcome)) /\ UNCHANGED results

\* doSearch of call i after `await api.searchDictionary(q)`: setResults(res), or
\* the catch with setError(String(err))
doSearch_resume(i, outcome) ==
    IF outcome.kind = "value"
    THEN results' = outcome.value /\ UNCHANGED error
    ELSE error' = Str(StringOfError(outcome)) /\ UNCHANGED results

\* the promise of call i settles, text being what res.text() gave (Undefined if
\* it was not read), and its caller resumes
Settle(i, text, outcome) ==
    /\ calls' = [calls EXCEPT ![i].pc = "settled", ![i].text = text,
                              ![i].outcome = outcome]
    /\ arrivals' = Append(arrivals, i)
    /\ IF calls[i].caller = "view"
       THEN doSearch_resume(i, outcome)
       ELSE UNCHANGED <<results, error>>
    /\ dom' = Render(q, results', error')
    /\ UNCHANGED <<env, API_BASE, q, requests>>

-----------------------------------------------------------------------------
(* The search page's handlers *)

\* onChange={(e) => setQ(e.target.value)}
setQ ==
    /\ ~MicrotaskPending
    /\ Cardinality(ViewCalls) < MaxSubmits
    /\ \E typed \in TYPED \cup {<<>>} :
        /\ typed # q
        /\ q' = typed
        /\ dom' = Render(typed, results, error)
    /\ UNCHANGED <<env, API_BASE, results, error, calls, requests, arrivals>>

\* doSearch up to the await, without setError(null)
doSearch_keepError ==
    /\ ~MicrotaskPending
    /\ Cardinality(ViewCalls) < MaxSubmits
    /\ ApiCall("searchDictionary", "view", <<Str(q), Undefined>>,
               searchDictionary(Str(q), Undefined))
    /\ dom' = Render(q, results, error)
    /\ UNCHANGED <<env, API_BASE, q, results, error>>

\* doSearch up to the await, also emptying the list while the search is pending
doSearch_clearResults ==
    /\ ~MicrotaskPending
    /\ Cardinality(ViewCalls) < MaxSubmits
    /\ error' = Null
    /\ results' = <<>>
    /\ ApiCall("searchDictionary", "view", <<Str(q), Undefined>>,
               searchDictionary(Str(q), Undefined))
    /\ dom' = Render(q, results', error')
    /\ UNCHANGED <<env, API_BASE, q>>

\* doSearch up to `await api.searchDictionary(q)`
doSearch ==
    /\ ~MicrotaskPending
    /\ Cardinality(ViewCalls) < MaxSubmits
    /\ error' = Null
    /\ ApiCall("searchDictionary", "view", <<Str(q), Undefined>>,
               searchDictionary(Str(q), Undefined))
    /\ dom' = Render(q, results, error')
    /\ UNCHANGED <<env, API_BASE, q, results>>

-----------------------------------------------------------------------------
(* Direct calls of the client's four operations *)

\* a caller other than the search page calls an operation
DirectCall(op, args, plan) ==
    /\ ApiCall(op, "direct", args, plan)
    /\ UNCHANGED <<env, API_BASE, q, results, error, dom>>

call_searchDictionary ==
    /\ ~MicrotaskPending
    /\ Cardinality(DirectCalls) < MaxDirectCalls
    /\ \E query \in QUERIES, limit \in LIMITS :
        DirectCall("searchDictionary", <<Str(query), limit>>,
                   searchDictionary(Str(query), limit))

call_getWordById ==
    /\ ~MicrotaskPending
    /\ Cardinality(DirectCalls) < MaxDirectCalls
    /\ \E id \in IDS :
        DirectCall("getWordById", <<id>>, getWordById(id))

call_getByBurushaski ==
    /\ ~MicrotaskPending
    /\ Cardinality(DirectCalls) < MaxDirectCalls
    /\ \E text \in QUERIES :
        DirectCall("getByBurushaski", <<Str(text)>>, getByBurushaski(Str(text)))

call_translate ==
    /\ ~MicrotaskPending
    /\ Cardinality(DirectCalls) < MaxDirectCalls
    /\ \E text \in TEXTS, source \in SOURCES, target \in TARGETS :
        DirectCall("translate", <<Str(text), source, target>>,
                   translate(Str(text), source, target))

-----------------------------------------------------------------------------
(* request() after each await *)

\* the path could not be built (URIError): the call's promise is rejected
\* and the caller's catch runs in the next microtask
thrown_settles ==
    \E i \in CallIds :
        /\ calls[i].pc = "thrown"
        /\ Settle(i, Undefined, Rejected(S_URIError, S_uri_malformed))

\* `await fetch(url, opts)` rejects: the error propagates unwrapped
fetch_rejects ==
    \E i \in CallIds, msg \in TRANSPORT_MESSAGES :
        /\ ~MicrotaskPending
        /\ calls[i].pc = "fetch"
        /\ Settle(i, Undefined, Rejected(S_TypeError, msg))

\* `await fetch(url, opts)` resolves: `if (!res.ok)` picks res.text() or res.json()
fetch_resolves ==
    \E i \in CallIds, status \in STATUSES :
        /\ ~MicrotaskPending
        /\ calls[i].pc = "fetch"
        /\ calls' = [calls EXCEPT
                        ![i].status = status,
                        ![i].pc = IF ResponseOk(status) THEN "json" ELSE "text",
                        ![i].read = IF ResponseOk(status) THEN "json" ELSE "text"]
        /\ UNCHANGED <<env, API_BASE, q, results, error, dom, requests, arrivals>>

\* `await res.text()` resolves: the Error is thrown
text_resolves ==
    \E i \in CallIds, text \in BODIES :
        /\ ~MicrotaskPending
        /\ calls[i].pc = "text"
        /\ Settle(i, Str(text), RequestFailedError(calls[i].status, text))

\* res.json() resolves with the parsed body
json_resolves ==
    \E i \in CallIds, value \in JSON_BODIES :
        /\ ~MicrotaskPending
        /\ calls[i].pc = "json"
        /\ Settle(i, Undefined, Fulfilled(value))

\* res.json() rejects: the body is not JSON
json_rejects ==
    \E i \in CallIds :
        /\ ~MicrotaskPending
        /\ calls[i].pc = "json"
        /\ Settle(i, Undefined, Rejected(S_SyntaxError, S_json_eof))

\* the body stream fails while res.text() or res.json() reads it
body_rejects ==
    \E i \in CallIds, msg \in TRANSPORT_MESSAGES :
        /\ ~MicrotaskPending
        /\ calls[i].pc \in {"text", "json"}
        /\ Settle(i, Undefined, Rejected(S_TypeError, msg))

-----------------------------------------------------------------------------
(* Specifications *)

Network ==
    \/ thrown_settles
    \/ fetch_rejects
    \/ fetch_resolves
    \/ text_resolves
    \/ json_resolves
    \/ json_rejects
    \/ body_rejects

\* the search page in use
NextView ==
    \/ setQ
    \/ doSearch
    \/ Network

SpecView == Init /\ [][NextView]_vars

\* the client's operations called directly
NextClient ==
    \/ call_searchDictionary
    \/ call_getWordById
    \/ call_getByBurushaski
    \/ call_translate
    \/ Network

SpecClient == Init /\ [][NextClient]_vars

-----------------------------------------------------------------------------
(* Vocabulary of the properties: readers written independently of the      *)
(* writers above (a decoder for the encoder, a parser for the serializer)  *)

\* the code unit at k, or -1 outside the string
At(str, k) ==
    IF k \in 1..Len(str) THEN str[k] ELSE 0 - 1

StartsWith(str, prefix) ==
    /\ Len(prefix) <= Len(str)
    /\ SubSeq(str, 1, Len(prefix)) = prefix

Contains(str, part) ==
    \E k \in 0..(Len(str) - Len(part)) : SubSeq(str, k + 1, k + Len(part)) = part

DropFirst(str, n) ==
    SubSeq(str, n + 1, Len(str))

\* a status code written as three decimal digits
ThreeDigits(n) ==
    <<48 + (n \div 100), 48 + ((n \div 10) % 10), 48 + (n % 10)>>

\* no unpaired surrogate in the string
WellFormed(str) ==
    \A k \in 1..Len(str) :
        /\ IsHighSurrogate(str[k]) => IsLowSurrogate(At(str, k + 1))
        /\ IsLowSurrogate(str[k]) => IsHighSurrogate(At(str, k - 1))

HexValue(c) ==
    IF c \in 48..57 THEN c - 48
    ELSE IF c \in 65..70 THEN c - 55
    ELSE IF c \in 97..102 THEN c - 87
    ELSE 0 - 1000

RECURSIVE PercentDecodeOctets(_, _)
\* the octets a percent-encoded string stands for, read from position k
PercentDecodeOctets(str, k) ==
    IF k > Len(str) THEN <<>>
    ELSE IF str[k] = 37
    THEN <<16 * HexValue(At(str, k + 1)) + HexValue(At(str, k + 2))>>
         \o PercentDecodeOctets(str, k + 3)
    ELSE <<str[k]>> \o PercentDecodeOctets(str, k + 1)

\* the UTF-16 code units of a code point
Utf16(cp) ==
    IF cp < 65536 THEN <<cp>>
    ELSE <<55296 + ((cp - 65536) \div 1024), 56320 + ((cp - 65536) % 1024)>>

RECURSIVE Utf8DecodeFrom(_, _)
\* the string a sequence of UTF-8 octets stands for; <<-1>> marks bad input
Utf8DecodeFrom(bs, k) ==
    IF k > Len(bs) THEN <<>>
    ELSE
        LET b == bs[k]
            c1 == At(bs, k + 1) - 128
            c2 == At(bs, k + 2) - 128
            c3 == At(bs, k + 3) - 128
        IN IF b \in 0..127 THEN <<b>> \o Utf8DecodeFrom(bs, k + 1)
           ELSE IF b \in 192..223 /\ c1 \in 0..63
           THEN Utf16((b - 192) * 64 + c1) \o Utf8DecodeFrom(bs, k + 2)
           ELSE IF b \in 224..239 /\ c1 \in 0..63 /\ c2 \in 0..63
           THEN Utf16((b - 224) * 4096 + c1 * 64 + c2) \o Utf8DecodeFrom(bs, k + 3)
           ELSE IF b \in 240..247 /\ c1 \in 0..63 /\ c2 \in 0..63 /\ c3 \in 0..63
           THEN Utf16((b - 240) * 262144 + c1 * 4096 + c2 * 64 + c3)
                \o Utf8DecodeFrom(bs, k + 4)
           ELSE <<0 - 1>>

\* decodeURIComponent
PercentDecode(str) ==
    Utf8DecodeFrom(PercentDecodeOctets(str, 1), 1)

\* the characters a percent-encoded query value is made of: unreserved marks,
\* letters, digits and '%'
IsUrlSafe(str) ==
    \A k \in 1..Len(str) :
        str[k] \in (65..90) \cup (97..122) \cup (48..57)
                   \cup {45, 95, 46, 33, 126, 42, 39, 40, 41, 37}

\* the position of the first occurrence of code unit c, or Len + 1
FirstIndexOf(str, c) ==
    IF \E k \in 1..Len(str) : str[k] = c
    THEN CHOOSE k \in 1..Len(str) : str[k] = c /\ \A j \in 1..(k - 1) : str[j] # c
    ELSE Len(str) + 1

RECURSIVE ReadJSONString(_, _, _)
\* a JSON string literal read from after its opening quote: [ok, val, next]
ReadJSONString(str, k, acc) ==
    LET c == At(str, k)
        e == At(str, k + 1)
        simple == (34 :> 34) @@ (92 :> 92) @@ (47 :> 47) @@ (98 :> 8)
                  @@ (102 :> 12) @@ (110 :> 10) @@ (114 :> 13) @@ (116 :> 9)
    IN IF c < 32 THEN [ok |-> FALSE, val |-> acc, next |-> k]
       ELSE IF c = 34 THEN [ok |-> TRUE, val |-> acc, next |-> k + 1]
       ELSE IF c # 92 THEN ReadJSONString(str, k + 1, Append(acc, c))
       ELSE IF e \in DOMAIN simple
       THEN ReadJSONString(str, k + 2, Append(acc, simple[e]))
       ELSE IF e = 117 /\ k + 5 <= Len(str)
       THEN ReadJSONString(str, k + 6,
                Append(acc, 4096 * HexValue(str[k + 2]) + 256 * HexValue(str[k + 3])
                            + 16 * HexValue(str[k + 4]) + HexValue(str[k + 5])))
       ELSE [ok |-> FALSE, val |-> acc, next |-> k]

RECURSIVE ReadJSONMembers(_, _, _)
\* the members "key":"value" of a JSON object read from position k: [ok, members]
ReadJSONMembers(str, k, acc) ==
    LET key == ReadJSONString(str, k + 1, <<>>)
        val == ReadJSONString(str, key.next + 2, <<>>)
        bad == [ok |-> FALSE, members |-> acc]
    IN IF At(str, k) # 34 \/ ~key.ok THEN bad
       ELSE IF At(str, key.next) # 58 \/ At(str, key.next + 1) # 34 \/ ~val.ok THEN bad
       ELSE IF At(str, val.next) = 44
       THEN ReadJSONMembers(str, val.next + 1, Append(acc, <<key.val, val.val>>))
       ELSE IF At(str, val.next) = 125 /\ val.next = Len(str)
       THEN [ok |-> TRUE, members |-> Append(acc, <<key.val, val.val>>)]
       ELSE bad

\* JSON.parse of an object whose members are all strings, keeping member order
ParseJSONObject(str) ==
    IF At(str, 1) = 123
    THEN ReadJSONMembers(str, 2, <<>>)
    ELSE [ok |-> FALSE, members |-> <<>>]

\* the fetches issued on behalf of call i
RequestsOf(i) ==
    {r \in 1..Len(requests) : requests[r].call = i}

\* the base URL the module is configured with
ConfiguredBase ==
    IF env.t = "string" /\ env.s # <<>> THEN env.s ELSE DEFAULT_API_BASE

-----------------------------------------------------------------------------
(* C1 *)

\* C1: for every call of searchDictionary, getWordById, getByBurushaski or
\* translate whose response has a non-2xx status S: the body is read with
\* res.text() and never with res.json(), the call never returns a value, and
\* once the body text B is read the call has failed with an error whose
\* message contains the digits of S and B verbatim.
C1_HttpFailureThrows ==
    \A i \in CallIds :
        LET c == calls[i]
        IN (c.status # 0 /\ c.status \notin 200..299) =>
            /\ c.read = "text"
            /\ c.outcome.kind # "value"
            /\ c.text # Undefined =>
                /\ c.pc = "settled"
                /\ c.outcome.kind = "error"
                /\ Contains(c.outcome.message, ThreeDigits(c.status))
                /\ Contains(c.outcome.message, c.text.s)

\* translate failed with status 500 and the body {"detail":"Not Found"}
C1_Witness ==
    \E i \in CallIds :
        /\ calls[i].op = "translate"
        /\ calls[i].status = 500
        /\ calls[i].text = Str(
             <<123, 34, 100, 101, 116, 97, 105, 108, 34, 58, 34, 78, 111, 116, 32,
               70, 111, 117, 110, 100, 34, 125>>)
        /\ calls[i].outcome.kind = "error"

-----------------------------------------------------------------------------
(* C4 *)

\* the text the limit argument is written as in the URL
LimitText(limit) ==
    CASE limit = Undefined -> <<50, 48>>
      [] limit.t = "string" -> limit.s
      [] limit.t = "number" -> NumToStr(limit.n)

\* the one fetch of a searchDictionary(query, limit) call is a GET of
\* base + /api/dictionary/search?q=<E>&limit=<L>, E the percent-encoding of
\* query and L the limit as given
IsSearchRequest(r, query, limit) ==
    LET prefix == ConfiguredBase \o SEARCH_PATH
        rest == DropFirst(r.url, Len(prefix))
        amp == FirstIndexOf(rest, 38)
        E == SubSeq(rest, 1, amp - 1)
        after == DropFirst(rest, amp - 1)
    IN /\ r.method = Str(S_GET)
       /\ r.body = Undefined
       /\ StartsWith(r.url, prefix)
       /\ IsUrlSafe(E)
       /\ PercentDecode(E) = query
       /\ after = LIMIT_PARAM \o LimitText(limit)

\* C4 as stated: for ANY query string, searchDictionary(q, limit) issues exactly
\* one GET whose q parameter is the percent-encoding of q and whose limit is the
\* argument verbatim, 20 when omitted.
C4_AnyQueryIssuesOneGet ==
    \A i \in CallIds :
        calls[i].op = "searchDictionary" =>
            /\ Cardinality(RequestsOf(i)) = 1
            /\ \A r \in RequestsOf(i) :
                IsSearchRequest(requests[r], calls[i].args[1].s, calls[i].args[2])

\* C4 amended: for any query string without an unpaired surrogate the call
\* issues exactly that one GET; for a query string with an unpaired surrogate
\* it issues no request and fails with a URIError.
C4_WellFormedQueryIssuesOneGet ==
    \A i \in CallIds :
        calls[i].op = "searchDictionary" =>
            IF WellFormed(calls[i].args[1].s)
            THEN /\ Cardinality(RequestsOf(i)) = 1
                 /\ \A r \in RequestsOf(i) :
                     IsSearchRequest(requests[r], calls[i].args[1].s, calls[i].args[2])
            ELSE /\ RequestsOf(i) = {}
                 /\ calls[i].outcome.kind # "value"
                 /\ calls[i].pc = "settled" => calls[i].outcome.name = S_URIError

\* searchDictionary('a &e-acute') with the default base has issued
\* GET http://127.0.0.1:8000/api/dictionary/search?q=a%20%26%C3%A9&limit=20
C4_Witness ==
    \E i \in CallIds :
        /\ calls[i].op = "searchDictionary"
        /\ calls[i].args = <<Str(<<97, 32, 38, 233>>), Undefined>>
        /\ \E r \in RequestsOf(i) : requests[r].url =
            <<104, 116, 116, 112, 58, 47, 47, 49, 50, 55, 46, 48, 46, 48, 46,
              49, 58, 56, 48, 48, 48, 47, 97, 112, 105, 47, 100, 105, 99,
              116, 105, 111, 110, 97, 114, 121, 47, 115, 101, 97, 114, 99,
              104, 63, 113, 61, 97, 37, 50, 48, 37, 50, 54, 37, 67, 51, 37,
              65, 57, 38, 108, 105, 109, 105, 116, 61, 50, 48>>

-----------------------------------------------------------------------------
(* C5 *)

\* C5: every translate(text, source, target) call issues one POST to
\* base + /api/translate with the single header Content-Type: application/json
\* and a body that parses as a JSON object with the members text, source,
\* target in that order, source and target being "burushaski" and "english"
\* when omitted.
C5_TranslatePostsJson ==
    \A i \in CallIds :
        calls[i].op = "translate" =>
            /\ Cardinality(RequestsOf(i)) = 1
            /\ \A r \in RequestsOf(i) :
                LET req == requests[r]
                    text == calls[i].args[1]
                    source == calls[i].args[2]
                    target == calls[i].args[3]
                    parsed == ParseJSONObject(req.body.s)
                IN /\ req.method = Str(S_POST)
                   /\ req.url = ConfiguredBase \o TRANSLATE_PATH
                   /\ req.headers = <<<<S_content_type, S_application_json>>>>
                   /\ req.body.t = "string"
                   /\ parsed.ok
                   /\ parsed.members =
                        <<<<S_text, text.s>>,
                          <<S_source, IF source = Undefined THEN S_burushaski
                                      ELSE source.s>>,
                          <<S_target, IF target = Undefined THEN S_english
                                      ELSE target.s>>>>

\* translate("hello", "english", "burushaski") has sent
\* {"text":"hello","source":"english","target":"burushaski"}
C5_Witness ==
    \E r \in 1..Len(requests) :
        /\ calls[requests[r].call].op = "translate"
        /\ requests[r].body = Str(
            <<123, 34, 116, 101, 120, 116, 34, 58, 34, 104, 101, 108, 108,
              111, 34, 44, 34, 115, 111, 117, 114, 99, 101, 34, 58, 34, 101,
              110, 103, 108, 105, 115, 104, 34, 44, 34, 116, 97, 114, 103,
              101, 116, 34, 58, 34, 98, 117, 114, 117, 115, 104, 97, 115,
              107, 105, 34, 125>>)

-----------------------------------------------------------------------------
(* Vocabulary of the search page's properties *)

\* the step submits the form: a call by the page is added
IsSubmit ==
    /\ Len(calls') = Len(calls) + 1
    /\ calls'[Len(calls')].caller = "view"

\* the step settles call i of the page
SettlesViewCall(i) ==
    /\ i \in ViewCalls
    /\ calls[i].pc # "settled"
    /\ calls'[i].pc = "settled"

\* String(err) for an error with a name and a message
ErrorText(outcome) ==
    outcome.name \o <<58, 32>> \o outcome.message

\* the settled calls of the page that returned a value, in arrival order
SuccessfulArrivals ==
    SelectSeq(arrivals,
              LAMBDA i : calls[i].caller = "view" /\ calls[i].outcome.kind = "value")

\* the value the list must hold when the last successful arrival wins
LastArrivedValue ==
    IF SuccessfulArrivals = <<>> THEN <<>>
    ELSE calls[SuccessfulArrivals[Len(SuccessfulArrivals)]].outcome.value

\* the most recently submitted search of the page
LastSubmitted ==
    CHOOSE i \in ViewCalls : \A j \in ViewCalls : j <= i

AllSettled ==
    InFlight = {}

RECURSIVE TrimEnd(_)
\* the text without its trailing spaces
TrimEnd(str) ==
    IF str # <<>> /\ str[Len(str)] = 32 THEN TrimEnd(SubSeq(str, 1, Len(str) - 1))
    ELSE str

RECURSIVE Concat(_)
Concat(strs) ==
    IF strs = <<>> THEN <<>> ELSE Head(strs) \o Concat(Tail(strs))

\* the text a list item shows
TextContent(item) ==
    TrimEnd(Concat(item.children))

-----------------------------------------------------------------------------
(* C2 *)

\* C2: the steps of a search that fails leave the result list untouched: the
\* submit does not change it, and the step in which the call fails (HTTP failure,
\* transport failure or any other rejection) leaves it exactly as it was and
\* sets the error value to the stringified error, name + ': ' + message.
C2_FailureKeepsResults ==
    [][/\ IsSubmit => results' = results /\ dom'.items = dom.items
       /\ \A i \in ViewCalls :
            (SettlesViewCall(i) /\ calls'[i].outcome.kind = "error") =>
                /\ results' = results
                /\ error' = Str(ErrorText(calls'[i].outcome))
                /\ dom'.items = dom.items
                /\ dom'.banner = <<ErrorText(calls'[i].outcome)>>]_vars

\* a search succeeded with three entries, then the next search, submitted after
\* it, failed with HTTP 500: the three items and the error banner are both shown
C2_Witness ==
    /\ Len(calls) = 2
    /\ arrivals = <<1, 2>>
    /\ calls[2].overlap = 0
    /\ calls[1].outcome.kind = "value"
    /\ calls[2].outcome.kind = "error"
    /\ calls[2].status = 500
    /\ results = <<E2, E3, E4>>
    /\ Len(dom.items) = 3
    /\ Len(dom.banner) = 1
    /\ error.t = "string"

-----------------------------------------------------------------------------
(* C3 *)

\* C3 as stated: once two overlapping searches have both settled, the result
\* list is the one the response that arrived last carries.
C3_LastArrivalWins ==
    (/\ Cardinality(ViewCalls) = 2
     /\ AllSettled
     /\ calls[2].overlap = 1
     /\ \A i \in ViewCalls : calls[i].read # "none") =>
        /\ calls[arrivals[2]].outcome.kind = "value"
        /\ results = calls[arrivals[2]].outcome.value

\* C3 amended: every submitted search issues its own request, whatever else is
\* in flight, and once all searches have settled the result list is the value
\* of the successful response that arrived last, in whatever order the searches
\* were submitted (the initial empty list if none succeeded): a response that
\* fails does not touch the list.
C3_LastSuccessfulArrivalWins ==
    /\ \A i \in ViewCalls :
        WellFormed(calls[i].args[1].s) => Cardinality(RequestsOf(i)) = 1
    /\ AllSettled => results = LastArrivedValue

\* the second search was submitted while the first was pending, the second's
\* response arrived first, and the list shows the first search's response
C3_Witness ==
    /\ Len(calls) = 2
    /\ calls[2].overlap = 1
    /\ arrivals = <<2, 1>>
    /\ calls[1].outcome.kind = "value"
    /\ calls[2].outcome.kind = "value"
    /\ calls[1].outcome.value # calls[2].outcome.value
    /\ results = calls[1].outcome.value

-----------------------------------------------------------------------------
(* C9 *)

\* C9: once every search has settled, the result list is the response to the
\* most recently submitted search (stated for the case that search succeeded).
C9_LatestSubmittedWins ==
    (/\ ViewCalls # {}
     /\ AllSettled
     /\ calls[LastSubmitted].outcome.kind = "value") =>
        results = calls[LastSubmitted].outcome.value

-----------------------------------------------------------------------------
(* C10 *)

\* the searches of the page that returned a value
Succeeded ==
    {i \in ViewCalls : calls[i].outcome.kind = "value"}

\* C10: when no search was submitted while another was in flight, in every
\* state with no request in flight the error value is present exactly if the
\* most recently submitted search failed, and the result list is the response
\* of the most recent successful search (the initial empty list if none).
C10_NonOverlappingInvariant ==
    (AllSettled /\ \A i \in ViewCalls : calls[i].overlap = 0) =>
        /\ (error # Null) <=>
            (ViewCalls # {} /\ calls[LastSubmitted].outcome.kind = "error")
        /\ error # Null => error.t = "string" /\ error.s # <<>>
        /\ results = IF Succeeded = {} THEN <<>>
                     ELSE calls[CHOOSE i \in Succeeded :
                                    \A j \in Succeeded : j <= i].outcome.value

\* two searches, one after the other: the first failed, the second succeeded,
\* the error is gone and the list is the second's response
C10_Witness ==
    /\ Len(calls) = 2
    /\ calls[2].overlap = 0
    /\ arrivals = <<1, 2>>
    /\ calls[1].outcome.kind = "error"
    /\ calls[2].outcome.kind = "value"
    /\ error = Null
    /\ results = <<E1>>

-----------------------------------------------------------------------------
(* C6 *)

\* an entry's urdu gloss is a non-empty string (the entries of the model carry
\* a string, null or no urdu member)
HasUrdu(w) ==
    w.urdu.t = "string" /\ Len(w.urdu.s) > 0

\* '<burushaski> — <english>', then ' (<urdu>)' if there is a gloss
ExpectedItemText(w) ==
    w.burushaski.s \o <<32, 8212, 32>> \o w.english.s
    \o (IF HasUrdu(w) THEN <<32, 40>> \o w.urdu.s \o <<41>> ELSE <<>>)

\* C6: the rendered list has exactly one item per entry of the result list, in
\* order, keyed by the entry's id, whose text (up to trailing spaces) is
\* '<burushaski> — <english>' followed by '(<urdu>)' exactly if urdu is truthy:
\* an absent, null or empty urdu gives no parenthetical.
C6_OneItemPerEntry ==
    /\ Len(dom.items) = Len(results)
    /\ \A k \in 1..Len(results) :
        /\ dom.items[k].key = results[k].id
        /\ TextContent(dom.items[k]) = ExpectedItemText(results[k])
        /\ Contains(TextContent(dom.items[k]), <<40>>) <=> HasUrdu(results[k])

\* the list shows 'x — y (z)', 'c — d' (urdu is '') and 'e — f' (urdu is null)
C6_Witness ==
    /\ results = <<E2, E3, E4>>
    /\ Len(dom.items) = 3
    /\ TextContent(dom.items[1]) = <<120, 32, 8212, 32, 121, 32, 40, 122, 41>>
    /\ TextContent(dom.items[2]) = <<99, 32, 8212, 32, 100>>
    /\ TextContent(dom.items[3]) = <<101, 32, 8212, 32, 102>>

-----------------------------------------------------------------------------
(* C7 *)

\* C7: every submit clears the error value and calls searchDictionary with the
\* query string the page holds at that moment and no limit argument, so that the
\* request (issued unless the query has an unpaired surrogate) carries that
\* query percent-encoded and limit=20; and the step in which a search succeeds
\* replaces the result list by exactly the returned entries and leaves the
\* error value as it was.
C7_SubmitThenReplace ==
    [][/\ IsSubmit =>
            /\ error' = Null
            /\ dom'.banner = <<>>
            /\ calls'[Len(calls')].op = "searchDictionary"
            /\ calls'[Len(calls')].args = <<Str(q), Undefined>>
            /\ WellFormed(q) =>
                /\ Len(requests') = Len(requests) + 1
                /\ requests'[Len(requests')].call = Len(calls')
                /\ IsSearchRequest(requests'[Len(requests')], q, Undefined)
       /\ \A i \in ViewCalls :
            (SettlesViewCall(i) /\ calls'[i].outcome.kind = "value") =>
                /\ results' = calls'[i].outcome.value
                /\ error' = error]_vars

\* a search returned three entries; 'a &e-acute' was typed and searched, and
\* its response [E1] replaced the list
C7_Witness ==
    /\ Len(calls) = 2
    /\ arrivals = <<1, 2>>
    /\ calls[1].outcome.value = <<E2, E3, E4>>
    /\ calls[2].args[1] = Str(<<97, 32, 38, 233>>)
    /\ calls[2].outcome.kind = "value"
    /\ results = <<E1>>
    /\ error = Null

-----------------------------------------------------------------------------
(* C8 *)

\* C8: a step in which no call settles leaves the result list as it is and
\* the error value as it is (a submit sets it to null), and leaves every
\* pending call pending: from its submit until some call settles, a
\* pending search updates nothing, however long it stays pending.
C8_PendingUpdatesNothing ==
    [][arrivals' = arrivals =>
        /\ results' = results
        /\ dom'.items = dom.items
        /\ error' = error \/ (IsSubmit /\ error' = Null)
        /\ \A i \in CallIds :
            calls[i].outcome = Pending => calls'[i].outcome = Pending]_vars

\* a search returned three entries; the next one is pending, its failure
\* response's body not yet read: the list still shows the three entries
C8_Witness ==
    /\ Len(calls) = 2
    /\ calls[1].outcome.kind = "value"
    /\ calls[2].pc = "text"
    /\ calls[2].outcome = Pending
    /\ results = <<E2, E3, E4>>
    /\ Len(dom.items) = 3
    /\ error = Null

====
